---- MODULE Spec2Model ----
(***************************************************************************)
(* Retrieval -> rerank -> generate -> verify pipeline of LLM-Book-LIB.     *)
(*                                                                         *)
(* Text is a sequence of characters.  A few fixed literals of the source   *)
(* (the tag opener "[Kaynak:", the keyword "Sayfa:", the two canonical    *)
(* "not found" sentences, the default "Bilinmiyor") are single characters  *)
(* of the alphabet; everything else is one character per element.  The     *)
(* Turkish literals are written without diacritics.                        *)
(***************************************************************************)
EXTENDS Integers, Sequences, FiniteSets, TLC

\* ------------------------------------------------------------------ bounds
MaxDocs == 2      \* longest evidence bundle / retrieved list
MaxSegs == 2      \* most segments (tags, plain text) in a generated answer
MaxFrags == 3     \* most fragments the generation engine streams per call

\* ------------------------------------------------------------- characters
TagOpen == "[Kaynak:"
PageKw == "Sayfa:"
Bilinmiyor == "Bilinmiyor"
NotFoundMain == "Saglanan kanitlarda bu soruya yanit verecek spesifik bir bilgi bulunmamaktadir."
NotFoundClient == "Saglanan belgelerde bu bilgi mevcut degil."

IsSpace(c) == c \in {" ", "\n"}
IsDigit(c) == c \in {"0", "1", "2", "3", "4", "5", "6", "7", "8", "9"}
\* '.' of a Python regular expression: any character but a newline
IsDot(c) == c # "\n"

\* ------------------------------------------------------- string functions
\* str.strip(): drop leading and trailing whitespace
RECURSIVE LStrip(_)
LStrip(s) == IF s # <<>> /\ IsSpace(Head(s)) THEN LStrip(Tail(s)) ELSE s

RECURSIVE RStrip(_)
RStrip(s) == IF s # <<>> /\ IsSpace(s[Len(s)]) THEN RStrip(SubSeq(s, 1, Len(s) - 1)) ELSE s

Strip(s) == RStrip(LStrip(s))

DigitChar(d) == CASE d = 0 -> "0" [] d = 1 -> "1" [] d = 2 -> "2" [] d = 3 -> "3"
                  [] d = 4 -> "4" [] d = 5 -> "5" [] d = 6 -> "6" [] d = 7 -> "7"
                  [] d = 8 -> "8" [] d = 9 -> "9"

\* str(n) of a non-negative int: decimal digits, no leading zeros
RECURSIVE Str(_)
Str(n) == IF n < 10 THEN <<DigitChar(n)>>
          ELSE Str(n \div 10) \o <<DigitChar(n % 10)>>

\* x in s, for a literal x that is one character of the alphabet
Contains(s, x) == \E i \in 1..Len(s) : s[i] = x

RECURSIVE Concat(_)
Concat(ss) == IF ss = <<>> THEN <<>> ELSE Head(ss) \o Concat(Tail(ss))

\* dict.get(key, default)
Get(m, k, d) == IF k \in DOMAIN m THEN m[k] ELSE d

\* --------------------------------------------- the citation regex, matched
\* pattern = \[Kaynak: (.*?)\s*-\s*(.*?),\s*Sayfa:\s*(\d+)\]
\* \s* and \d+ are greedy and are followed by a character outside their class,
\* so they take the whole run; (.*?) is lazy: the shortest group the rest matches.
RECURSIVE SkipSpace(_, _)
SkipSpace(s, i) == IF i <= Len(s) /\ IsSpace(s[i]) THEN SkipSpace(s, i + 1) ELSE i

RECURSIVE SkipDigits(_, _)
SkipDigits(s, i) == IF i <= Len(s) /\ IsDigit(s[i]) THEN SkipDigits(s, i + 1) ELSE i

NoMatch == [end |-> 0]

\* (\d+)\]  with the digits at b..c-1
MatchPage(s, b, c) ==
    IF c > b /\ c <= Len(s) /\ s[c] = "]"
    THEN [end |-> c + 1, page |-> SubSeq(s, b, c - 1)]
    ELSE NoMatch

\* Sayfa:\s*(\d+)\]  at position a
MatchPageKw(s, a) ==
    IF a <= Len(s) /\ s[a] = PageKw
    THEN MatchPage(s, SkipSpace(s, a + 1), SkipDigits(s, SkipSpace(s, a + 1)))
    ELSE NoMatch

\* ,\s*Sayfa:\s*(\d+)\]  at position m
MatchTail(s, m) ==
    IF m <= Len(s) /\ s[m] = "," THEN MatchPageKw(s, SkipSpace(s, m + 1)) ELSE NoMatch

\* (.*?),\s*Sayfa:...  with the lazy group starting at b and tried up to m-1
RECURSIVE LazyAuthor(_, _, _)
AuthorResult(s, b, m, t) ==
    IF t.end # 0
    THEN [end |-> t.end, author |-> SubSeq(s, b, m - 1), page |-> t.page]
    ELSE IF m <= Len(s) /\ IsDot(s[m]) THEN LazyAuthor(s, b, m + 1) ELSE NoMatch

LazyAuthor(s, b, m) == AuthorResult(s, b, m, MatchTail(s, m))

\* -\s*(.*?),...  at position a
MatchDashAt(s, a) ==
    IF a <= Len(s) /\ s[a] = "-"
    THEN LazyAuthor(s, SkipSpace(s, a + 1), SkipSpace(s, a + 1))
    ELSE NoMatch

\* (.*?)\s*-\s*(.*?),...  with the lazy group starting at i+2 and tried up to j-1
RECURSIVE LazyTitle(_, _, _)
TitleResult(s, i, j, r) ==
    IF r.end # 0
    THEN [end |-> r.end, groups |-> <<SubSeq(s, i + 2, j - 1), r.author, r.page>>]
    ELSE IF j <= Len(s) /\ IsDot(s[j]) THEN LazyTitle(s, i, j + 1) ELSE NoMatch

LazyTitle(s, i, j) == TitleResult(s, i, j, MatchDashAt(s, SkipSpace(s, j)))

\* the whole pattern at position i
MatchAt(s, i) ==
    IF s[i] = TagOpen /\ i + 1 <= Len(s) /\ s[i + 1] = " "
    THEN LazyTitle(s, i, i + 2)
    ELSE NoMatch

\* re.findall(pattern, s): the groups of the non-overlapping matches, left to right
RECURSIVE FindAllFrom(_, _)
FindStep(s, i, r) ==
    IF r.end = 0 THEN FindAllFrom(s, i + 1) ELSE <<r.groups>> \o FindAllFrom(s, r.end)

FindAllFrom(s, i) == IF i > Len(s) THEN <<>> ELSE FindStep(s, i, MatchAt(s, i))

FindAll(s) == FindAllFrom(s, 1)

\* ------------------------------------------------------------- documents
\* a langchain Document object: oid is the object's identity
Document(oid, content, file, title, author, page) ==
    [oid |-> oid, page_content |-> content,
     metadata |-> [source_file |-> file, title |-> title, author |-> author, page |-> page]]

Range(f) == {f[i] : i \in DOMAIN f}

SeqsUpTo(S, n) == UNION {[1..k -> S] : k \in 0..n}

Separator == <<"\n", "\n", "-", "-", "-", "\n", "\n">>

\* the citation header _format_context writes in front of a chunk
CitationHeader(doc) ==
    LET metadata == doc.metadata
        source_str == Get(metadata, "title", <<Bilinmiyor>>) \o <<" ", "-", " ">>
                        \o Get(metadata, "author", <<Bilinmiyor>>)
        page == Get(metadata, "page", 0)
    IN  <<TagOpen, " ">> \o source_str \o <<",", " ", PageKw, " ">> \o Str(page) \o <<"]">>

\* a join that walks the parts from the last to the first
RECURSIVE JoinReversed(_, _)
JoinReversed(sep, parts) ==
    IF parts = <<>> THEN <<>>
    ELSE IF Len(parts) = 1 THEN parts[1]
    ELSE JoinReversed(sep, Tail(parts)) \o sep \o parts[1]

\* str.join
RECURSIVE Join(_, _)
Join(sep, parts) ==
    IF parts = <<>> THEN <<>>
    ELSE IF Len(parts) = 1 THEN parts[1]
    ELSE parts[1] \o sep \o Join(sep, Tail(parts))

\* RAGCore._format_context (rag_core.py)
FormatContext(documents) ==
    Join(Separator,
         [i \in 1..Len(documents) |->
             CitationHeader(documents[i]) \o <<"\n">> \o documents[i].page_content])

\* ---------------------------------------------------------------- Policy A
\* the set of (title, author, page) citations of the answer, each field stripped
AnswerReferences(answer_references_raw) ==
    {<<Strip(r[1]), Strip(r[2]), Strip(r[3])>> : r \in Range(answer_references_raw)}

\* the key verify_and_present files a source document under
SourceKey(doc) ==
    <<Get(doc.metadata, "title", <<Bilinmiyor>>),
      Get(doc.metadata, "author", <<Bilinmiyor>>),
      Str(Get(doc.metadata, "page", 0))>>

SourceDocsKeys(docs) == {SourceKey(docs[i]) : i \in 1..Len(docs)}

VerifiedRefs(refs, keys) == refs \cap keys

\* a difference that looks at title and author only
HallucinatedRefsIgnoringPage(refs, keys) ==
    {r \in refs : \A k \in keys : r[1] # k[1] \/ r[2] # k[2]}

HallucinatedRefs(refs, keys) == refs \ keys

\* source_docs_map[ref]: a later document overwrites an earlier one with the same key
SourceDocOf(docs, ref) ==
    docs[CHOOSE i \in 1..Len(docs) :
            /\ SourceKey(docs[i]) = ref
            /\ \A j \in 1..Len(docs) : SourceKey(docs[j]) = ref => j <= i]

NoVerdict == [path |-> "none"]

\* _present_unverified_answer: the answer, the warning, the possible sources
PresentUnverifiedAnswer(docs) ==
    [path |-> "unverified", docs |-> docs,
     verified_refs |-> {}, hallucinated_refs |-> {}, verified_sources |-> {},
     printed |-> {"YANIT", "KAYNAKLAR DOGRULANAMADI"}
                   \cup (IF docs # <<>> THEN {"OLASI KAYNAKLAR"} ELSE {})]

\* step 4 of verify_and_present: what is printed for the two sets
PresentChecked(docs, verified_refs, hallucinated_refs) ==
    [path |-> "checked", docs |-> docs,
     verified_refs |-> verified_refs,
     hallucinated_refs |-> hallucinated_refs,
     verified_sources |-> {SourceDocOf(docs, ref) : ref \in verified_refs},
     printed |-> {"YANIT"}
         \cup (IF verified_refs # {} THEN {"DOGRULANMIS KAYNAKLAR"} ELSE {})
         \cup (IF hallucinated_refs # {} THEN {"UYDURMA KAYNAK UYARISI"} ELSE {})]

\* steps 2 and 3 of verify_and_present
CompareReferences(docs, refs, keys) ==
    PresentChecked(docs, VerifiedRefs(refs, keys), HallucinatedRefs(refs, keys))

\* a first step without the branch for an answer that cites nothing
CheckReferencesAlwaysCompares(docs, answer_references_raw) ==
    CompareReferences(docs, AnswerReferences(answer_references_raw), SourceDocsKeys(docs))

\* step 1 of verify_and_present, given what re.findall returned
CheckReferences(docs, answer_references_raw) ==
    IF answer_references_raw = <<>>
    THEN PresentUnverifiedAnswer(docs)
    ELSE CompareReferences(docs, AnswerReferences(answer_references_raw), SourceDocsKeys(docs))

\* AnswerVerifier.verify_and_present: what it computes and what it prints
VerifyAndPresent(answer, docs) == CheckReferences(docs, FindAll(answer))

\* ------------------------------------------------------ inputs of Policy A
TitleT == <<"T">>
TitlePadded == <<" ", "T">>
TitleHyphen == <<"S", "-", "H">>
AuthorA == <<"A">>

PolicyADocs ==
    {Document(0, <<"c">>, <<"f">>, t, AuthorA, p) :
        t \in {TitleT, TitlePadded, TitleHyphen}, p \in {5, 7}}

\* a tag as a generator may write it: free whitespace, any page digits
LooseTag(title, author, page) ==
    <<TagOpen, " ", " ">> \o title \o <<" ", " ", "-">> \o author
        \o <<",", PageKw, "\n">> \o page \o <<"]">>

AnswerSegments ==
    {CitationHeader(d) : d \in PolicyADocs}
        \cup {LooseTag(TitleT, AuthorA, <<"5">>),
              <<TagOpen, " ">> \o TitleT \o <<" ", "-", " ">> \o AuthorA
                  \o <<",", " ", PageKw, " ", "0", "0", "7", "]">>,
              <<"x">>}

PolicyAAnswers == {Concat(ss) : ss \in SeqsUpTo(AnswerSegments, MaxSegs)}

PolicyABundles == SeqsUpTo(PolicyADocs, MaxDocs)

\* ------------------------------------------------------ retrieval, rerank
RERANKER_TOP_N == 5

\* a slice that keeps the whole list
NoTruncation(a, b) == b

Min(a, b) == IF a <= b THEN a ELSE b

\* the chunks the document store holds
StoreDocs ==
    {[page_content |-> <<"c">>, source_file |-> <<"f">>, title |-> TitleT,
      author |-> AuthorA, page |-> 5],
     [page_content |-> <<"d">>, source_file |-> <<"f">>, title |-> TitleT,
      author |-> AuthorA, page |-> 7]}

\* what retriever.invoke may return: fresh Document objects, duplicates possible
RetrievedLists ==
    {[i \in 1..Len(r) |->
        Document(i, r[i].page_content, r[i].source_file, r[i].title, r[i].author, r[i].page)] :
     r \in SeqsUpTo(StoreDocs, MaxDocs)}

DedupKey(doc) ==
    <<doc.page_content, Get(doc.metadata, "source_file", "None"), Get(doc.metadata, "page", "None")>>

\* a retrieval step that passes the candidates on as they came
KeepAllDocs(retrieved_docs) == retrieved_docs

\* list({key(doc): doc for doc in retrieved_docs}.values()): keys in order of
\* first insertion, each holding the last document filed under it
UniqueDocs(retrieved_docs) ==
    LET n == Len(retrieved_docs)
        firsts == {i \in 1..n : \A j \in 1..(i - 1) :
                                    DedupKey(retrieved_docs[j]) # DedupKey(retrieved_docs[i])}
        last(i) == CHOOSE k \in 1..n :
                      /\ DedupKey(retrieved_docs[k]) = DedupKey(retrieved_docs[i])
                      /\ \A j \in 1..n :
                            DedupKey(retrieved_docs[j]) = DedupKey(retrieved_docs[i]) => j <= k
        nth(k) == CHOOSE i \in firsts : Cardinality({j \in firsts : j < i}) = k - 1
    IN  [k \in 1..Cardinality(firsts) |-> retrieved_docs[last(nth(k))]]

\* the scores the cross-encoder may give a list of n pairs
ScoreLists(n) == [1..n -> {0, 1}]

\* an ascending sort that is reversed afterwards: descending, ties in reverse order
SortAscendingThenReverse(documents, scores) ==
    LET n == Len(documents)
        rank(i) == 1 + Cardinality({j \in 1..n :
                         scores[j] > scores[i] \/ (scores[j] = scores[i] /\ j > i)})
    IN  [k \in 1..n |-> documents[CHOOSE i \in 1..n : rank(i) = k]]

\* list.sort(key=score, reverse=True): descending and stable
SortByScoreDescending(documents, scores) ==
    LET n == Len(documents)
        rank(i) == 1 + Cardinality({j \in 1..n :
                         scores[j] > scores[i] \/ (scores[j] = scores[i] /\ j < i)})
    IN  [k \in 1..n |-> documents[CHOOSE i \in 1..n : rank(i) = k]]

\* ReRanker.rerank: how often it calls predict (the guard returns before the call)
PredictCalls(query, documents) == IF documents = <<>> \/ query = <<>> THEN 0 ELSE 1

\* ReRanker.rerank, given the scores predict() returned
Rerank(query, documents, scores) ==
    IF documents = <<>> \/ query = <<>> THEN <<>>
    ELSE LET scored_docs == SortByScoreDescending(documents, scores)
         IN  SubSeq(scored_docs, 1, Min(RERANKER_TOP_N, Len(scored_docs)))

\* ------------------------------------------------------ generation engine
\* the text of one streamed chunk of the engine
Fragments ==
    {<<>>, <<"x">>, <<NotFoundMain>>,
     CitationHeader(Document(1, <<"c">>, <<"f">>, TitleT, AuthorA, 5))}

EngineStreams == SeqsUpTo(Fragments, MaxFrags)

\* a loop that takes everything the engine has to stream in one turn
DrainedChunks(s) == s

\* `for chunk in stream`: one turn pulls one chunk from the engine
NextChunks(s) == <<Head(s)>>

\* an engine that never signals the end of its stream
StreamExhaustedNever(s) == FALSE

\* `for chunk in stream` ends when the engine's stream has nothing left
StreamExhausted(s) == s = <<>>

\* `stream = self._llm(..., stream=True)`: one more call of the engine is open
Started(n) == n + 1

\* an engine call that stays open after its stream is exhausted
EndedNever(n) == n

\* the engine's stream is exhausted or has raised: that call is over
Ended(n) == n - 1

\* a caller that keeps the last token only
KeepLastToken(answer, token) == token

\* `final_answer += token` of MainApplication._handle_query
AppendToken(answer, token) == answer \o token

\* a generator that yields every chunk text, the empty ones too
ShouldYieldAlways(token) == TRUE

\* `if token:` of stream_query_response
ShouldYield(token) == token # <<>>

\* a generator that yields the candidates as retrieved, before the reranking
YieldedUnrankedEvidence(unique, reranked) == unique

\* a caller that takes every first element for evidence
IsEmptyBundleNever(docs) == FALSE

\* `if not source_docs:` of MainApplication._handle_query
IsEmptyBundle(docs) == docs = <<>>

\* the first element stream_query_response yields after reranking
YieldedEvidence(unique, reranked) == reranked

\* --------------------------------------------------------- exception model
ExceptionSubclasses == {"Exception", "RuntimeError", "AttributeError", "NameError"}

\* what a library call of a stage (Chroma, the cross-encoder, llama.cpp) may raise
StageExceptions == {"Exception", "RuntimeError"}

\* a handler that catches the exhausted generator only
HandleQueryCatchesStopIterationOnly(e) == e = "StopIteration"

\* `except Exception` of MainApplication._handle_query
HandleQueryCatches(e) == e \in ExceptionSubclasses

\* the except clauses of MainApplication.run
RunCatches(e) ==
    e \in {"ConfigError", "ModelError", "DatabaseError", "SystemError", "KeyboardInterrupt"}

\* `except (KeyboardInterrupt, EOFError)` of TerminalApplication._run_main_loop
MainLoopCatches(e) == e \in {"KeyboardInterrupt", "EOFError"}

\* ------------------------------------------------------------------ state
VARIABLES
    app,            \* which program runs: "main" (main.py) or "client" (client.py)
    pc,             \* where the orchestrator is
    session,        \* "running", "ended" (the loop was left), "crashed" (an exception left it)
    cause,          \* why the session is over
    exc,            \* the exception in flight, or "none"
    stage_error,    \* the stage of this query that raised, or "none"
    outcome,        \* how the last query ended
    had_failure,    \* some query of this session failed
    gen_pc,         \* where the generator of stream_query_response is
    unique_docs, reranked_docs,
    context_docs,   \* the list the context string was built from
    stream,         \* what the engine has still to stream
    engine_out,     \* the chunk texts pulled from the engine, in order
    llm_calls,      \* calls of the generation engine in this query
    yielded,        \* what stream_query_response has yielded in this query
    final_answer, source_docs, verdict,
    retrieved_docs, \* client: the documents the server returned for this query
    raw_answer,     \* Policy B: the answer handed to verify
    llm_replies,    \* Policy B: what the engine does when asked about chunk i: its
                    \* reply, or "RAISES" when the call raises
    response,       \* Policy B: the FinalResponse verify returned
    verify_pc,      \* Policy B: "none", "called", "returned" or "raised"
    scores,         \* what the cross-encoder's predict returned for this query
    predict_calls,  \* calls of the cross-encoder's predict in this query
    context,        \* the context string built for the prompt of this query
    in_flight,      \* calls of the generation engine that have started and not ended
    verify_calls,   \* calls of verify_and_present in this query
    db_chunks,      \* the chunks in the Chroma collection, in the order they were added
    all_docs_in_memory, \* server: VectorDatabase._all_docs_in_memory
    bm25_retriever, \* server: VectorDatabase._bm25_retriever
    retriever,      \* server: the class attribute RequestHandler.retriever
    processed_files,\* StateManager._state: the files recorded as processed
    sync_pc,        \* where the library synchronisation is
    sync_queue,     \* the files the running synchronisation has still to look at
    sync_runs,      \* synchronisations started so far
    seen            \* server: what the last /retrieve searched

queryVars == <<stage_error, gen_pc, unique_docs, reranked_docs, context_docs, stream,
               engine_out, llm_calls, yielded, final_answer, source_docs, verdict,
               retrieved_docs>>

policyBVars == <<raw_answer, llm_replies, response, verify_pc>>

stageVars == <<scores, predict_calls, context>>

engineVars == <<in_flight, verify_calls>>

libraryVars == <<db_chunks, all_docs_in_memory, bm25_retriever, retriever, processed_files,
                 sync_pc, sync_queue, sync_runs, seen>>

vars == <<app, pc, session, cause, exc, outcome, had_failure, queryVars, policyBVars, stageVars,
          engineVars, libraryVars>>

NoQuery ==
    /\ stage_error = "none"
    /\ gen_pc = "none"
    /\ unique_docs = <<>> /\ reranked_docs = <<>> /\ context_docs = <<>>
    /\ stream = <<>> /\ engine_out = <<>> /\ llm_calls = 0 /\ yielded = <<>>
    /\ retrieved_docs = <<>>
    /\ scores = <<>> /\ predict_calls = 0 /\ context = <<>>
    /\ in_flight = 0 /\ verify_calls = 0

\* `self._bm25_retriever = None`
NoBM25 == [built |-> FALSE, docs |-> <<>>]

\* no /retrieve has been answered
NotSeen == [during |-> "none", hybrid |-> FALSE, dense |-> {}, lexical |-> {}]

NoLibrary ==
    /\ db_chunks = <<>> /\ all_docs_in_memory = <<>> /\ bm25_retriever = NoBM25
    /\ retriever = [kind |-> "none", bm25 |-> NoBM25]
    /\ processed_files = {} /\ sync_pc = "none" /\ sync_queue = <<>> /\ sync_runs = 0
    /\ seen = NotSeen

NoResponse == [final_answer |-> <<>>, verified_sources |-> <<>>, unverified_sources |-> <<>>,
               is_fully_verified |-> FALSE, raw_llm_answer |-> <<>>]

NoPolicyB ==
    /\ raw_answer = <<>> /\ llm_replies = <<>> /\ response = NoResponse /\ verify_pc = "none"

Idle ==
    /\ app = "none" /\ pc = "none" /\ session = "none" /\ cause = "none"
    /\ exc = "none" /\ outcome = "none" /\ had_failure = FALSE
    /\ NoQuery
    /\ NoLibrary

\* ------------------------------------------ Policy A applied to any input
InitPolicyA ==
    /\ Idle
    /\ final_answer \in PolicyAAnswers
    /\ source_docs \in PolicyABundles
    /\ verdict = NoVerdict
    /\ NoPolicyB

verify_and_present ==
    /\ app = "none"
    /\ verdict = NoVerdict
    /\ verdict' = VerifyAndPresent(final_answer, source_docs)
    /\ UNCHANGED <<app, pc, session, cause, exc, outcome, had_failure, stage_error, gen_pc,
                   unique_docs, reranked_docs, context_docs, stream, engine_out, llm_calls,
                   yielded, final_answer, source_docs, retrieved_docs, policyBVars, stageVars,
                   engineVars, libraryVars>>

NextPolicyA == verify_and_present

SpecPolicyA == InitPolicyA /\ [][NextPolicyA]_vars

\* ------------------------------------------------------- main.py: the run
Query == <<"q">>

Init ==
    /\ app \in {"main", "client"}
    /\ pc = "prompt" /\ session = "running" /\ cause = "none"
    /\ exc = "none" /\ outcome = "none" /\ had_failure = FALSE
    /\ NoQuery
    /\ NoLibrary
    /\ final_answer = <<>> /\ source_docs = <<>> /\ verdict = NoVerdict
    /\ NoPolicyB

Running(a) == app = a /\ session = "running" /\ exc = "none"

\* run: `if not user_input: continue`
run_empty_input ==
    /\ Running("main") /\ pc = "prompt"
    /\ UNCHANGED vars

\* run: `if cmd in [':q', ':quit', ':exit']: break`
run_quit ==
    /\ Running("main") /\ pc = "prompt"
    /\ session' = "ended" /\ cause' = "quit"
    /\ UNCHANGED <<app, pc, exc, outcome, had_failure, queryVars, policyBVars, stageVars,
                   engineVars, libraryVars>>

\* run: `else: self._handle_query(user_input)` up to the call of next(response_stream)
handle_query ==
    /\ Running("main") /\ pc = "prompt"
    /\ pc' = "next_docs"
    /\ stage_error' = "none" /\ gen_pc' = "start"
    /\ unique_docs' = <<>> /\ reranked_docs' = <<>> /\ context_docs' = <<>>
    /\ stream' = <<>> /\ engine_out' = <<>> /\ llm_calls' = 0 /\ yielded' = <<>>
    /\ final_answer' = <<>> /\ source_docs' = <<>> /\ verdict' = NoVerdict
    /\ retrieved_docs' = <<>>
    /\ scores' = <<>> /\ predict_calls' = 0 /\ context' = <<>>
    /\ verify_calls' = 0
    /\ UNCHANGED <<app, session, cause, exc, outcome, had_failure, policyBVars, in_flight,
                   libraryVars>>

\* a stage raises: the exception is in flight and the generator, if any, is dead
Raise(stage, e) ==
    /\ exc' = e /\ stage_error' = stage

\* stream_query_response, step 1: retriever.invoke and the de-duplication
stream_retrieve ==
    /\ Running("main") /\ pc = "next_docs" /\ gen_pc = "start"
    /\ \/ /\ \E e \in StageExceptions : Raise("retrieval", e)
          /\ gen_pc' = "raised"
          /\ UNCHANGED <<unique_docs, yielded, retrieved_docs>>
       \/ \E docs \in RetrievedLists :
            /\ retrieved_docs' = docs
            /\ unique_docs' = UniqueDocs(docs)
            /\ IF unique_docs' = <<>>
               THEN gen_pc' = "yielded_empty" /\ yielded' = <<[kind |-> "docs", val |-> <<>>]>>
               ELSE gen_pc' = "rerank" /\ UNCHANGED yielded
            /\ UNCHANGED <<exc, stage_error>>
    /\ UNCHANGED <<app, pc, session, cause, outcome, had_failure, reranked_docs, context_docs,
                   stream, engine_out, llm_calls, final_answer, source_docs, verdict,
                   policyBVars, stageVars, engineVars, libraryVars>>

\* stream_query_response, step 2: the reranker, then the first yield
stream_rerank ==
    /\ Running("main") /\ pc = "next_docs" /\ gen_pc = "rerank"
    /\ predict_calls' = predict_calls + PredictCalls(Query, unique_docs)
    /\ \/ /\ PredictCalls(Query, unique_docs) > 0
          /\ \E e \in StageExceptions : Raise("reranking", e)
          /\ gen_pc' = "raised"
          /\ UNCHANGED <<reranked_docs, yielded, scores>>
       \/ \E sc \in ScoreLists(Len(unique_docs)) :
            /\ scores' = sc
            /\ reranked_docs' = Rerank(Query, unique_docs, sc)
            /\ IF reranked_docs' = <<>>
               THEN /\ gen_pc' = "yielded_empty"
                    /\ yielded' = <<[kind |-> "docs", val |-> <<>>]>>
               ELSE /\ gen_pc' = "yielded_docs"
                    /\ yielded' = <<[kind |-> "docs",
                                     val |-> YieldedEvidence(unique_docs, reranked_docs')]>>
            /\ UNCHANGED <<exc, stage_error>>
    /\ UNCHANGED <<app, pc, session, cause, outcome, had_failure, unique_docs, context_docs,
                   stream, engine_out, llm_calls, final_answer, source_docs, verdict,
                   retrieved_docs, policyBVars, context, engineVars, libraryVars>>

\* _handle_query: `source_docs = next(response_stream)` returns; the empty check
handle_query_docs ==
    /\ Running("main") /\ pc = "next_docs" /\ gen_pc \in {"yielded_docs", "yielded_empty"}
    /\ source_docs' = yielded[1].val
    /\ IF IsEmptyBundle(source_docs')
       THEN pc' = "prompt" /\ outcome' = "no_document"
       ELSE pc' = "next_token" /\ UNCHANGED outcome
    /\ UNCHANGED <<app, session, cause, exc, had_failure, stage_error, gen_pc, unique_docs,
                   reranked_docs, context_docs, stream, engine_out, llm_calls, yielded,
                   final_answer, verdict, retrieved_docs, policyBVars, stageVars, engineVars,
                   libraryVars>>

\* stream_query_response, step 3: the context and the call of the engine
stream_generate ==
    /\ Running("main") /\ pc = "next_token" /\ gen_pc \in {"yielded_docs", "yielded_empty"}
    /\ IF gen_pc = "yielded_empty"
       THEN \* resumed after `yield []`: the `return` that follows ends the generator
            /\ gen_pc' = "finished"
            /\ UNCHANGED <<context_docs, context, llm_calls, stream, exc, stage_error,
                           in_flight>>
       ELSE /\ context_docs' = reranked_docs
            /\ context' = FormatContext(reranked_docs)
            /\ llm_calls' = llm_calls + 1
            /\ \/ /\ \E e \in StageExceptions : Raise("generation", e)
                  /\ gen_pc' = "raised"
                  /\ UNCHANGED <<stream, in_flight>>
               \/ /\ stream' \in EngineStreams
                  /\ in_flight' = Started(in_flight)
                  /\ gen_pc' = "streaming"
                  /\ UNCHANGED <<exc, stage_error>>
    /\ UNCHANGED <<app, pc, session, cause, outcome, had_failure, unique_docs, reranked_docs,
                   engine_out, yielded, final_answer, source_docs, verdict,
                   retrieved_docs, policyBVars, scores, predict_calls, verify_calls,
                   libraryVars>>

\* stream_query_response: one turn of `for chunk in stream`
stream_next_chunk ==
    /\ Running("main") /\ pc = "next_token" /\ gen_pc = "streaming"
    /\ \/ /\ StreamExhausted(stream)
          /\ gen_pc' = "finished"
          /\ in_flight' = Ended(in_flight)
          /\ UNCHANGED <<exc, stage_error, stream, engine_out, yielded, pc>>
       \/ /\ stream # <<>>
          /\ \E e \in StageExceptions : Raise("generation", e)
          /\ gen_pc' = "raised"
          /\ in_flight' = Ended(in_flight)
          /\ UNCHANGED <<stream, engine_out, yielded, pc>>
       \/ /\ stream # <<>>
          /\ LET token == Head(stream)
             IN  /\ stream' = SubSeq(stream, Len(NextChunks(stream)) + 1, Len(stream))
                 /\ engine_out' = engine_out \o NextChunks(stream)
                 /\ IF ShouldYield(token)
                    THEN /\ yielded' = Append(yielded, [kind |-> "token", val |-> token])
                         /\ pc' = "got_token"
                    ELSE UNCHANGED <<yielded, pc>>
          /\ UNCHANGED <<exc, stage_error, gen_pc, in_flight>>
    /\ UNCHANGED <<app, session, cause, outcome, had_failure, unique_docs, reranked_docs,
                   context_docs, llm_calls, final_answer, source_docs, verdict,
                   retrieved_docs, policyBVars, stageVars, verify_calls, libraryVars>>

\* _handle_query: the body of `for token in response_stream`
handle_query_token ==
    /\ Running("main") /\ pc = "got_token"
    /\ final_answer' = AppendToken(final_answer, yielded[Len(yielded)].val)
    /\ pc' = "next_token"
    /\ UNCHANGED <<app, session, cause, exc, outcome, had_failure, stage_error, gen_pc,
                   unique_docs, reranked_docs, context_docs, stream, engine_out, llm_calls,
                   yielded, source_docs, verdict, retrieved_docs, policyBVars, stageVars,
                   engineVars, libraryVars>>

\* _handle_query: the stream is exhausted; verify_and_present(final_answer, source_docs)
handle_query_verify ==
    /\ Running("main") /\ pc = "next_token" /\ gen_pc = "finished"
    /\ verify_calls' = verify_calls + 1
    /\ \/ /\ \E e \in StageExceptions : Raise("verification", e)
          /\ UNCHANGED <<verdict, pc, outcome>>
       \/ /\ verdict' = VerifyAndPresent(final_answer, source_docs)
          /\ pc' = "prompt" /\ outcome' = "presented"
          /\ UNCHANGED <<exc, stage_error>>
    /\ UNCHANGED <<app, session, cause, had_failure, gen_pc, unique_docs, reranked_docs,
                   context_docs, stream, engine_out, llm_calls, yielded, final_answer,
                   source_docs, retrieved_docs, policyBVars, stageVars, in_flight, libraryVars>>

\* _handle_query: `except Exception as e`
handle_query_except ==
    /\ app = "main" /\ session = "running" /\ pc # "prompt"
    /\ exc # "none" /\ HandleQueryCatches(exc)
    /\ exc' = "none" /\ outcome' = "failed" /\ had_failure' = TRUE
    /\ pc' = "prompt"
    /\ UNCHANGED <<app, session, cause, queryVars, policyBVars, stageVars,
                   engineVars, libraryVars>>

\* Ctrl-C, at the prompt or while a query runs
keyboard_interrupt ==
    /\ Running("main")
    /\ exc' = "KeyboardInterrupt"
    /\ UNCHANGED <<app, pc, session, cause, outcome, had_failure, queryVars, policyBVars, stageVars,
                   engineVars, libraryVars>>

\* run: what _handle_query does not catch reaches the except clauses of run
run_except ==
    /\ app = "main" /\ session = "running"
    /\ exc # "none" /\ ~(pc # "prompt" /\ HandleQueryCatches(exc))
    /\ session' = IF RunCatches(exc) THEN "ended" ELSE "crashed"
    /\ cause' = exc
    /\ exc' = "none"
    /\ UNCHANGED <<app, pc, outcome, had_failure, queryVars, policyBVars, stageVars,
                   engineVars, libraryVars>>

NextMain ==
    \/ run_empty_input \/ run_quit \/ handle_query
    \/ stream_retrieve \/ stream_rerank \/ handle_query_docs
    \/ stream_generate \/ stream_next_chunk \/ handle_query_token
    \/ handle_query_verify \/ handle_query_except
    \/ keyboard_interrupt \/ run_except

\* ---------------------------------------------------- client.py: the loop
RERANKER_N == 7

\* a DocumentInfo built from the server's JSON; the metadata is the one
\* DocumentConverter gave the page
DocumentInfo(oid, content, file, title, author, page) ==
    [oid |-> oid, page_content |-> content,
     metadata |-> [source_file |-> file, book_title |-> title, author |-> author,
                   page |-> page]]

\* RequestHandler.handle_retrieve: one DocumentInfo per retrieved Document, in order
HandleRetrieve(retrieved) ==
    [i \in 1..Len(retrieved) |->
        DocumentInfo(i, retrieved[i].page_content, retrieved[i].source_file,
                     retrieved[i].title, retrieved[i].author, retrieved[i].page)]

\* what /retrieve may answer with
ServerLists == {HandleRetrieve(r) : r \in SeqsUpTo(StoreDocs, MaxDocs)}

\* RAGCore._rerank_documents: how often it calls predict
ClientPredictCalls(docs) == IF docs = <<>> THEN 0 ELSE 1

\* sorted(zip(docs, scores), key=score, reverse=True)[:RERANKER_N]
RerankDocuments(docs, predicted) ==
    IF docs = <<>> THEN <<>>
    ELSE SubSeq(SortByScoreDescending(docs, predicted), 1, Min(RERANKER_N, Len(docs)))

NoEvidenceSentinel == "Kullanicinin sorusunu yanitlamak icin hicbir kaynak bulunamadi."

\* the source reference the client's _format_context writes in front of a chunk
ClientSourceRef(doc) ==
    <<TagOpen, " ">> \o Get(doc.metadata, "book_title", <<"Bilinmeyen Kitap">>)
        \o <<" ", "(">> \o Get(doc.metadata, "author", <<"Bilinmeyen Yazar">>)
        \o <<")", ",", " ", PageKw, " ">>
        \o (IF "page" \in DOMAIN doc.metadata THEN Str(doc.metadata.page)
            ELSE <<"Bilinmeyen Sayfa">>)
        \o <<"]">>

\* RAGCore._format_context (client_components.py)
ClientFormatContext(docs) ==
    IF docs = <<>> THEN <<NoEvidenceSentinel>>
    ELSE Join(Separator,
              [i \in 1..Len(docs) |->
                  ClientSourceRef(docs[i]) \o <<"\n">> \o docs[i].page_content])

\* _run_main_loop: `if not user_input: continue`
main_loop_empty_input ==
    /\ Running("client") /\ pc = "prompt"
    /\ UNCHANGED vars

\* _run_main_loop: _handle_command(':quit') returns True, `break`
main_loop_quit ==
    /\ Running("client") /\ pc = "prompt"
    /\ session' = "ended" /\ cause' = "quit"
    /\ UNCHANGED <<app, pc, exc, outcome, had_failure, queryVars, policyBVars, stageVars,
                   engineVars, libraryVars>>

\* _run_main_loop: `else: self._handle_query(user_input)`
client_handle_query ==
    /\ Running("client") /\ pc = "prompt"
    /\ pc' = "retrieve"
    /\ stage_error' = "none"
    /\ retrieved_docs' = <<>> /\ reranked_docs' = <<>> /\ context_docs' = <<>>
    /\ llm_calls' = 0
    /\ scores' = <<>> /\ predict_calls' = 0 /\ context' = <<>>
    /\ UNCHANGED <<app, session, cause, exc, outcome, had_failure, gen_pc, unique_docs, stream,
                   engine_out, yielded, final_answer, source_docs, verdict, policyBVars,
                   engineVars, libraryVars>>

\* _handle_query, step 1: ServerAPIClient.retrieve_documents and the empty check.
\* _make_request answers None for an HTTP or URL error.
retrieve_documents ==
    /\ Running("client") /\ pc = "retrieve"
    /\ \/ /\ pc' = "prompt" /\ outcome' = "no_document"
          /\ stage_error' = "retrieval"
          /\ UNCHANGED retrieved_docs
       \/ \E docs \in ServerLists :
            /\ retrieved_docs' = docs
            /\ IF docs = <<>>
               THEN pc' = "prompt" /\ outcome' = "no_document"
               ELSE pc' = "rerank" /\ UNCHANGED outcome
            /\ UNCHANGED stage_error
    /\ UNCHANGED <<app, session, cause, exc, had_failure, gen_pc, unique_docs,
                   reranked_docs, context_docs, stream, engine_out, llm_calls, yielded,
                   final_answer, source_docs, verdict, policyBVars, stageVars, engineVars,
                   libraryVars>>

\* generate_answer, step 1: _rerank_documents
generate_answer_rerank ==
    /\ Running("client") /\ pc = "rerank"
    /\ predict_calls' = predict_calls + ClientPredictCalls(retrieved_docs)
    /\ \/ /\ ClientPredictCalls(retrieved_docs) > 0
          /\ Raise("reranking", "Exception")
          /\ UNCHANGED <<reranked_docs, pc, scores>>
       \/ \E sc \in ScoreLists(Len(retrieved_docs)) :
            /\ scores' = sc
            /\ reranked_docs' = RerankDocuments(retrieved_docs, sc)
            /\ pc' = "generate"
            /\ UNCHANGED <<exc, stage_error>>
    /\ UNCHANGED <<app, session, cause, outcome, had_failure, gen_pc, unique_docs, context_docs,
                   stream, engine_out, llm_calls, yielded, final_answer, source_docs, verdict,
                   retrieved_docs, policyBVars, context, engineVars, libraryVars>>

\* generate_answer, steps 2 and 3, up to `print(self.formatter.color(...))`: RAGCore
\* has _formatter and no formatter, so the line raises AttributeError before the
\* engine is called.
generate_answer_prompt ==
    /\ Running("client") /\ pc = "generate"
    /\ context_docs' = reranked_docs
    /\ context' = ClientFormatContext(reranked_docs)
    /\ Raise("generation", "AttributeError")
    /\ UNCHANGED <<app, pc, session, cause, outcome, had_failure, gen_pc, unique_docs,
                   reranked_docs, stream, engine_out, llm_calls, yielded, final_answer,
                   source_docs, verdict, retrieved_docs, policyBVars, scores, predict_calls,
                   engineVars, libraryVars>>

\* Ctrl-C or end of input, at the prompt or while a query runs
client_interrupt ==
    /\ Running("client")
    /\ exc' \in {"KeyboardInterrupt", "EOFError"}
    /\ UNCHANGED <<app, pc, session, cause, outcome, had_failure, queryVars, policyBVars, stageVars,
                   engineVars, libraryVars>>

\* _handle_query has no try: the exception reaches the except clause of
\* _run_main_loop, which breaks on what it catches and lets the rest out of start()
main_loop_except ==
    /\ app = "client" /\ session = "running"
    /\ exc # "none"
    /\ session' = IF MainLoopCatches(exc) THEN "ended" ELSE "crashed"
    /\ cause' = exc
    /\ exc' = "none"
    /\ UNCHANGED <<app, pc, outcome, had_failure, queryVars, policyBVars, stageVars,
                   engineVars, libraryVars>>

NextClient ==
    \/ main_loop_empty_input \/ main_loop_quit \/ client_handle_query
    \/ retrieve_documents \/ generate_answer_rerank \/ generate_answer_prompt
    \/ client_interrupt \/ main_loop_except

Next == NextMain \/ NextClient

\* main.py alone, every statement of a running query eventually executed: the
\* program is one thread, and each collaborator call returns or raises
InitMain == app = "main" /\ Init

\* step 1 of stream_query_response with a store that returns at most one chunk;
\* whether a query ends does not depend on how many candidates it has
stream_retrieve_one == stream_retrieve /\ Len(retrieved_docs') <= 1

QueryStep ==
    \/ stream_retrieve_one \/ stream_rerank \/ handle_query_docs
    \/ stream_generate \/ stream_next_chunk \/ handle_query_token
    \/ handle_query_verify \/ handle_query_except \/ run_except

NextTerminating ==
    \/ run_empty_input \/ run_quit \/ handle_query \/ keyboard_interrupt
    \/ QueryStep

SpecTerminating == InitMain /\ [][NextTerminating]_vars /\ WF_vars(QueryStep)

Spec == Init /\ [][Next]_vars

\* ------------------------------------------ Policy B applied to any input
\* the sentence rule 3 of the client's GENERATION_PROMPT tells the model to write
GenerationPromptNotFound == NotFoundClient

\* a verifier that looks for the sentence of the other deployment's prompt
VerifierLiteralOfMainPrompt == NotFoundMain

\* the literal AnswerVerifier.verify looks for
VerifierNotFoundLiteral == NotFoundClient

RawAnswers ==
    {<<NotFoundClient>>, <<"x", " ", NotFoundClient>>, <<NotFoundMain>>, <<"x">>, <<>>,
     <<TagOpen, " ", "T", "]">>, <<" ", TagOpen, "T", "]", "\n", TagOpen, "]">>,
     <<"x", TagOpen, "T", "]">>}

\* where the tag that opens before position j closes: `.*?\]` takes the first "]"
\* and `.` does not cross a line end; 0 when the tag does not close
RECURSIVE TagEnd(_, _)
TagEnd(s, j) ==
    IF j > Len(s) THEN 0
    ELSE IF s[j] = "]" THEN j
    ELSE IF s[j] = "\n" THEN 0
    ELSE TagEnd(s, j + 1)

\* re.sub(r'\[Kaynak:.*?\]', '', s), from position i on
RECURSIVE SubTagsFrom(_, _)
SubTagsFrom(s, i) ==
    IF i > Len(s) THEN <<>>
    ELSE IF s[i] = TagOpen /\ TagEnd(s, i + 1) # 0
         THEN SubTagsFrom(s, TagEnd(s, i + 1) + 1)
         ELSE <<s[i]>> \o SubTagsFrom(s, i + 1)

\* verify: `claim = re.sub(...).strip()`
Claim(raw) == Strip(SubTagsFrom(raw, 1))

\* the final_answer of the verdict for an empty claim
EmptyAnswerMessage == "Model bos bir cevap uretti."

PolicyBBundles == {HandleRetrieve(r) : r \in SeqsUpTo(StoreDocs, MaxDocs)}

FinalResponse(final, verified, unverified, fully, raw) ==
    [final_answer |-> final, verified_sources |-> verified, unverified_sources |-> unverified,
     is_fully_verified |-> fully, raw_llm_answer |-> raw]

InitPolicyB ==
    /\ Idle
    /\ final_answer = <<>> /\ verdict = NoVerdict
    /\ raw_answer \in RawAnswers
    /\ source_docs \in PolicyBBundles
    /\ llm_replies \in [1..Len(source_docs) -> {"EVET", "HAYIR", "RAISES"}]
    /\ response = NoResponse
    /\ verify_pc = "called"

\* AnswerVerifier.verify (client_components.py).  After the short circuit the
\* first statement that needs the module `re` raises NameError: the file never
\* imports it, so the per-chunk loop is not reached.
verify ==
    /\ app = "none" /\ verify_pc = "called"
    /\ IF Contains(raw_answer, VerifierNotFoundLiteral)
       THEN /\ response' = FinalResponse(raw_answer, <<>>, <<>>, TRUE, raw_answer)
            /\ verify_pc' = "returned"
            /\ UNCHANGED <<exc, stage_error>>
       ELSE /\ Raise("verification", "NameError")
            /\ verify_pc' = "raised"
            /\ UNCHANGED response
    /\ UNCHANGED <<app, pc, session, cause, outcome, had_failure, gen_pc, unique_docs,
                   reranked_docs, context_docs, stream, engine_out, llm_calls, yielded,
                   final_answer, source_docs, verdict, retrieved_docs, raw_answer,
                   llm_replies, stageVars, engineVars, libraryVars>>

NextPolicyB == verify

SpecPolicyB == InitPolicyB /\ [][NextPolicyB]_vars

\* ------------------------------- the stages applied to any input, one call
MaxCands == 8

\* a candidate list of n distinct objects; two contents alternate, so equal
\* chunks occur under different identities
Candidates(n) ==
    [i \in 1..n |-> Document(i, IF i % 2 = 1 THEN <<"c">> ELSE <<"d">>, <<"f">>,
                             TitleT, AuthorA, 5)]

ClientCandidates(n) ==
    [i \in 1..n |-> DocumentInfo(i, IF i % 2 = 1 THEN <<"c">> ELSE <<"d">>, <<"f">>,
                                 TitleT, AuthorA, 5)]

InitStages ==
    /\ cause = "none" /\ exc = "none" /\ outcome = "none"
    /\ had_failure = FALSE /\ stage_error = "none" /\ gen_pc = "none"
    /\ context_docs = <<>> /\ stream = <<>> /\ engine_out = <<>> /\ llm_calls = 0
    /\ yielded = <<>> /\ predict_calls = 0 /\ context = <<>>
    /\ in_flight = 0 /\ verify_calls = 0
    /\ NoLibrary
    /\ final_answer = <<>> /\ source_docs = <<>> /\ verdict = NoVerdict
    /\ NoPolicyB
    /\ \/ /\ app = "none" /\ pc = "rerank"
          /\ \E n \in 0..MaxCands : unique_docs = Candidates(n) /\ scores \in ScoreLists(n)
          /\ retrieved_docs = <<>> /\ reranked_docs = <<>>
       \/ /\ app = "none" /\ pc = "rerank_documents"
          /\ \E n \in 0..MaxCands : retrieved_docs = ClientCandidates(n) /\ scores \in ScoreLists(n)
          /\ unique_docs = <<>> /\ reranked_docs = <<>>
       \/ /\ app = "none" /\ pc = "format_context"
          /\ reranked_docs \in RetrievedLists
          /\ unique_docs = <<>> /\ retrieved_docs = <<>> /\ scores = <<>>
       \/ /\ app = "none" /\ pc = "client_format_context"
          /\ reranked_docs \in ServerLists
          /\ unique_docs = <<>> /\ retrieved_docs = <<>> /\ scores = <<>>
       \/ \* RAGCore.generate_answer(query, retrieved_docs) of the client, entered
          /\ app = "client" /\ pc = "rerank"
          /\ retrieved_docs \in ServerLists
          /\ unique_docs = <<>> /\ reranked_docs = <<>> /\ scores = <<>>
    /\ session = (IF app = "client" THEN "running" ELSE "none")

\* ReRanker.rerank(query, documents), predict answering with scores
rerank ==
    /\ app = "none" /\ pc = "rerank" /\ outcome = "none"
    /\ reranked_docs' = Rerank(Query, unique_docs, scores)
    /\ predict_calls' = predict_calls + PredictCalls(Query, unique_docs)
    /\ outcome' = "returned"
    /\ UNCHANGED <<app, pc, session, cause, exc, had_failure, stage_error, gen_pc, unique_docs,
                   context_docs, stream, engine_out, llm_calls, yielded, final_answer,
                   source_docs, verdict, retrieved_docs, policyBVars, scores, context,
                   engineVars, libraryVars>>

\* RAGCore._rerank_documents(query, docs) of the client
rerank_documents ==
    /\ app = "none" /\ pc = "rerank_documents" /\ outcome = "none"
    /\ reranked_docs' = RerankDocuments(retrieved_docs, scores)
    /\ predict_calls' = predict_calls + ClientPredictCalls(retrieved_docs)
    /\ outcome' = "returned"
    /\ UNCHANGED <<app, pc, session, cause, exc, had_failure, stage_error, gen_pc, unique_docs,
                   context_docs, stream, engine_out, llm_calls, yielded, final_answer,
                   source_docs, verdict, retrieved_docs, policyBVars, scores, context,
                   engineVars, libraryVars>>

\* RAGCore._format_context(documents) of rag_core.py
format_context ==
    /\ app = "none" /\ pc = "format_context" /\ outcome = "none"
    /\ context' = FormatContext(reranked_docs)
    /\ outcome' = "returned"
    /\ UNCHANGED <<app, pc, session, cause, exc, had_failure, stage_error, gen_pc, unique_docs,
                   reranked_docs, context_docs, stream, engine_out, llm_calls, yielded,
                   final_answer, source_docs, verdict, retrieved_docs, policyBVars, scores,
                   predict_calls, engineVars, libraryVars>>

\* RAGCore._format_context(docs) of client_components.py
client_format_context ==
    /\ app = "none" /\ pc = "client_format_context" /\ outcome = "none"
    /\ context' = ClientFormatContext(reranked_docs)
    /\ outcome' = "returned"
    /\ UNCHANGED <<app, pc, session, cause, exc, had_failure, stage_error, gen_pc, unique_docs,
                   reranked_docs, context_docs, stream, engine_out, llm_calls, yielded,
                   final_answer, source_docs, verdict, retrieved_docs, policyBVars, scores,
                   predict_calls, engineVars, libraryVars>>

NextStages ==
    \/ rerank \/ rerank_documents \/ format_context \/ client_format_context
    \/ generate_answer_rerank \/ generate_answer_prompt

SpecStages == InitStages /\ [][NextStages]_vars

\* ------------------------------------------------ the library and its store
MaxChunks == 2     \* chunks the text splitter makes of one file
MaxSyncs == 2      \* synchronisations started in one run

LibraryFiles == {"a.pdf", "b.pdf", "c.pdf"}

\* the order in which glob("*.pdf") lists the directory
GlobOrder == <<"a.pdf", "b.pdf", "c.pdf">>

\* the chunks _text_splitter.split_documents / process_pdf makes of a file
ChunksOf(f) == [k \in 1..MaxChunks |-> [source_file |-> f, k |-> k]]

\* everything but the library is at rest
NoApplication ==
    /\ pc = "none" /\ session = "none" /\ cause = "none"
    /\ exc = "none" /\ outcome = "none" /\ had_failure = FALSE
    /\ NoQuery
    /\ final_answer = <<>> /\ source_docs = <<>> /\ verdict = NoVerdict
    /\ NoPolicyB

applicationVars == <<app, pc, session, cause, exc, outcome, had_failure, queryVars, policyBVars,
                     stageVars, engineVars>>

\* ----------------------------------------------- main.py: _sync_library
\* `import datetime` binds the module, so `datetime.now()` of
\* mark_pdf_as_processed raises AttributeError before _state is assigned
MarkPdfAsProcessed(state, f) == state

InitSync ==
    /\ app = "sync"
    /\ NoApplication
    /\ db_chunks = <<>> /\ processed_files = {}
    /\ sync_pc = "idle" /\ sync_queue = <<>> /\ sync_runs = 0
    /\ all_docs_in_memory = <<>> /\ bm25_retriever = NoBM25
    /\ retriever = [kind |-> "none", bm25 |-> NoBM25]
    /\ seen = NotSeen

\* _sync_library, step 2: the PDFs not recorded as processed; at startup or by ':reload'
sync_library ==
    /\ app = "sync" /\ sync_pc = "idle" /\ sync_runs < MaxSyncs
    /\ sync_runs' = sync_runs + 1
    /\ sync_queue' = SelectSeq(GlobOrder, LAMBDA f : f \notin processed_files)
    /\ sync_pc' = IF sync_queue' = <<>> THEN "idle" ELSE "loop"
    /\ UNCHANGED <<applicationVars, db_chunks, all_docs_in_memory, bm25_retriever, retriever,
                   processed_files, seen>>

\* _sync_library, step 3: one turn of `for pdf_path in pdfs_to_process`, with
\* its try and its `except Exception`
sync_library_pdf ==
    /\ app = "sync" /\ sync_pc = "loop" /\ sync_queue # <<>>
    /\ \/ \* no metadata, no content, or process_pdf / add_documents raised
          UNCHANGED <<db_chunks, processed_files>>
       \/ \* add_documents, then mark_pdf_as_processed
          /\ db_chunks' = db_chunks \o ChunksOf(Head(sync_queue))
          /\ processed_files' = MarkPdfAsProcessed(processed_files, Head(sync_queue))
    /\ sync_queue' = Tail(sync_queue)
    /\ sync_pc' = IF sync_queue' = <<>> THEN "idle" ELSE "loop"
    /\ UNCHANGED <<applicationVars, all_docs_in_memory, bm25_retriever, retriever, sync_runs,
                   seen>>

NextSync == sync_library \/ sync_library_pdf

SpecSync == InitSync /\ [][NextSync]_vars

\* ------------------------------------------------- server.py: the handlers
\* BM25Retriever.from_documents(docs): an index of the list as it is now
BM25Retriever(docs) == [built |-> TRUE, docs |-> docs]

\* VectorDatabase._rebuild_bm25_retriever
RebuildBM25Retriever(docs) == IF docs = <<>> THEN NoBM25 ELSE BM25Retriever(docs)

\* VectorDatabase.get_retriever: Chroma alone when there is no BM25 index
GetRetriever(bm25) ==
    IF ~bm25.built THEN [kind |-> "chroma", bm25 |-> NoBM25]
    ELSE [kind |-> "ensemble", bm25 |-> bm25]

\* retriever.invoke: the Chroma retriever searches the collection as it is, the
\* BM25 retriever the list it was built from
Invoke(r, db, during) ==
    [during |-> during,
     hybrid |-> r.kind = "ensemble",
     dense |-> Range(db),
     lexical |-> Range(r.bm25.docs)]

\* the class body of RequestHandler has run: the store is as an earlier run
\* left it, empty or with a.pdf synchronised
InitServer ==
    /\ app = "server"
    /\ NoApplication
    /\ \/ db_chunks = <<>> /\ processed_files = {}
       \/ db_chunks = ChunksOf("a.pdf") /\ processed_files = {"a.pdf"}
    /\ all_docs_in_memory = db_chunks
    /\ bm25_retriever = RebuildBM25Retriever(all_docs_in_memory)
    /\ retriever = GetRetriever(bm25_retriever)
    /\ sync_pc = "idle" /\ sync_queue = <<>> /\ sync_runs = 0
    /\ seen = NotSeen

\* POST /sync: handle_sync lists the directory
handle_sync ==
    /\ app = "server" /\ sync_pc = "idle" /\ sync_runs < MaxSyncs
    /\ sync_runs' = sync_runs + 1
    /\ sync_queue' = GlobOrder
    /\ sync_pc' = "loop"
    /\ UNCHANGED <<applicationVars, db_chunks, all_docs_in_memory, bm25_retriever, retriever,
                   processed_files, seen>>

\* handle_sync: one turn of `for pdf_path in all_pdfs`, up to step 1 of add_documents
handle_sync_file ==
    /\ app = "server" /\ sync_pc = "loop" /\ sync_queue # <<>>
    /\ \/ \* already processed, or no title / author, or no documents: next file
          /\ sync_queue' = Tail(sync_queue)
          /\ UNCHANGED <<db_chunks, sync_pc>>
       \/ \* add_documents, step 1: `self._db.add_documents(chunks)`
          /\ Head(sync_queue) \notin processed_files
          /\ db_chunks' = db_chunks \o ChunksOf(Head(sync_queue))
          /\ sync_pc' = "chroma_added"
          /\ UNCHANGED sync_queue
    /\ UNCHANGED <<applicationVars, all_docs_in_memory, bm25_retriever, retriever,
                   processed_files, sync_runs, seen>>

\* add_documents, step 2: `self._all_docs_in_memory.extend(chunks)`
add_documents_extend ==
    /\ app = "server" /\ sync_pc = "chroma_added"
    /\ all_docs_in_memory' = all_docs_in_memory \o ChunksOf(Head(sync_queue))
    /\ sync_pc' = "extended"
    /\ UNCHANGED <<applicationVars, db_chunks, bm25_retriever, retriever, processed_files,
                   sync_queue, sync_runs, seen>>

\* add_documents, step 3: `self._rebuild_bm25_retriever()`
add_documents_rebuild ==
    /\ app = "server" /\ sync_pc = "extended"
    /\ bm25_retriever' = RebuildBM25Retriever(all_docs_in_memory)
    /\ sync_pc' = "rebuilt"
    /\ UNCHANGED <<applicationVars, db_chunks, all_docs_in_memory, retriever, processed_files,
                   sync_queue, sync_runs, seen>>

\* handle_sync, step 3: `self.state_manager.mark_file_as_processed(...)`
mark_file_as_processed ==
    /\ app = "server" /\ sync_pc = "rebuilt"
    /\ processed_files' = processed_files \cup {Head(sync_queue)}
    /\ sync_queue' = Tail(sync_queue)
    /\ sync_pc' = "loop"
    /\ UNCHANGED <<applicationVars, db_chunks, all_docs_in_memory, bm25_retriever, retriever,
                   sync_runs, seen>>

\* handle_sync: the loop is over, the response is sent
handle_sync_end ==
    /\ app = "server" /\ sync_pc = "loop" /\ sync_queue = <<>>
    /\ sync_pc' = "idle"
    /\ UNCHANGED <<applicationVars, db_chunks, all_docs_in_memory, bm25_retriever, retriever,
                   processed_files, sync_queue, sync_runs, seen>>

\* POST /retrieve on another thread of the ThreadingHTTPServer, at any moment:
\* `self.retriever.invoke(query)` with the retriever the class body made
handle_retrieve ==
    /\ app = "server"
    /\ seen' = Invoke(retriever, db_chunks, sync_pc)
    /\ UNCHANGED <<applicationVars, db_chunks, all_docs_in_memory, bm25_retriever, retriever,
                   processed_files, sync_pc, sync_queue, sync_runs>>

NextServer ==
    \/ handle_sync \/ handle_sync_file \/ add_documents_extend \/ add_documents_rebuild
    \/ mark_file_as_processed \/ handle_sync_end \/ handle_retrieve

SpecServer == InitServer /\ [][NextServer]_vars

\* ------------------------------------------------------- claims, Policy A
Citations == AnswerReferences(FindAll(final_answer))
Provenances == {SourceKey(source_docs[i]) : i \in 1..Len(source_docs)}

\* C1: for an answer with at least one citation tag, verified is the answer's
\* citations that are provenances of the bundle, hallucinated is the rest; the
\* two are disjoint, together they are the citation set, and a citation that
\* matches no chunk of the bundle is in hallucinated.
C1_VerifiedAndHallucinated ==
    (verdict # NoVerdict /\ FindAll(final_answer) # <<>>) =>
        /\ verdict.path = "checked"
        /\ verdict.verified_refs = Citations \cap Provenances
        /\ verdict.hallucinated_refs = Citations \ Provenances
        /\ verdict.verified_refs \cap verdict.hallucinated_refs = {}
        /\ verdict.verified_refs \cup verdict.hallucinated_refs = Citations
        /\ \A c \in Citations :
              (\A i \in 1..Len(source_docs) : SourceKey(source_docs[i]) # c)
                  => c \in verdict.hallucinated_refs

\* a bundle with (T, A, 5), an answer citing it and citing page 7 as well
C1_Witness ==
    /\ verdict.path = "checked"
    /\ <<TitleT, AuthorA, <<"5">>>> \in verdict.verified_refs
    /\ <<TitleT, AuthorA, <<"7">>>> \in verdict.hallucinated_refs

\* C2: citation round trip: when the answer is exactly the tag _format_context
\* rendered for a chunk of the bundle, that chunk's (title, author, page) is in
\* verified and hallucinated is empty.
C2_CitationRoundTrip ==
    \A i \in 1..Len(source_docs) :
        (verdict # NoVerdict /\ final_answer = CitationHeader(source_docs[i])) =>
            /\ verdict.path = "checked"
            /\ SourceKey(source_docs[i]) \in verdict.verified_refs
            /\ verdict.hallucinated_refs = {}

\* C3: a citation matches a provenance when title and author are equal after
\* trimming both sides and the page digits equal the page's string; a citation
\* with page 007 is never verified.
C3_TrimmedFieldEquality ==
    verdict.path = "checked" =>
        /\ \A c \in Citations : \A i \in 1..Len(source_docs) :
              ( /\ c[1] = Strip(source_docs[i].metadata.title)
                /\ c[2] = Strip(source_docs[i].metadata.author)
                /\ c[3] = Str(source_docs[i].metadata.page) )
                  => c \in verdict.verified_refs
        /\ \A c \in Citations : c[3] = <<"0", "0", "7">> => c \in verdict.hallucinated_refs

\* ------------------------------------------------------- claims, Policy B
Affirmed == {i \in 1..Len(source_docs) : llm_replies[i] = "EVET"}
Denied == {i \in 1..Len(source_docs) : llm_replies[i] # "EVET"}

\* C4: once verify has acted on an answer that is not the short-circuited one, it
\* has returned a response whose is_fully_verified is true exactly when some
\* chunk was affirmed and no chunk was denied (false for an empty bundle).
C4_ConservativeVerification ==
    (verify_pc # "called" /\ ~Contains(raw_answer, VerifierNotFoundLiteral)) =>
        /\ verify_pc = "returned"
        /\ response.is_fully_verified = (Affirmed # {} /\ Denied = {})

\* C5: when the raw answer is the "not found" sentence of the client's
\* generation prompt, verify returns is_fully_verified = TRUE whatever the
\* bundle holds, and has not called the engine.
C5_NotFoundShortCircuit ==
    (verify_pc # "called" /\ raw_answer = <<GenerationPromptNotFound>>) =>
        /\ verify_pc = "returned"
        /\ response.is_fully_verified = TRUE
        /\ response.verified_sources = <<>> /\ response.unverified_sources = <<>>
        /\ llm_calls = 0

\* the sentence alone, a bundle of two chunks the engine would deny
C5_Witness ==
    /\ verify_pc = "returned"
    /\ raw_answer = <<GenerationPromptNotFound>>
    /\ Len(source_docs) = 2 /\ Affirmed = {}
    /\ response.is_fully_verified

\* --------------------------------------------- claims, the streaming pipeline
\* C6: in main.py an answer that contains the "not found" sentence of the
\* generation prompt is presented without the "sources could not be verified"
\* fallback, without a citation check and without a hallucination warning.
C6_NotFoundTriviallyVerified ==
    (app = "main" /\ verdict # NoVerdict /\ Contains(final_answer, NotFoundMain)) =>
        /\ verdict.path # "unverified" /\ verdict.path # "checked"
        /\ verdict.printed \cap {"KAYNAKLAR DOGRULANAMADI", "OLASI KAYNAKLAR",
                                 "UYDURMA KAYNAK UYARISI"} = {}

\* C7: the bundle verify_and_present receives is the list the context string was
\* built from: the same chunks in the same order.
C7_EvidenceIdentity ==
    (app = "main" /\ verdict # NoVerdict) =>
        /\ source_docs = context_docs
        /\ verdict.docs = context_docs

\* a run in which the reranker reordered two candidates and the answer was verified
C7_Witness ==
    /\ app = "main" /\ verdict # NoVerdict
    /\ Len(context_docs) = 2
    /\ context_docs # unique_docs

YieldedTokens == [i \in 1..(Len(yielded) - 1) |-> yielded[i + 1].val]
NonEmptyFragments(out) == SelectSeq(out, LAMBDA t : t # <<>>)

\* C8: the first element yielded is the evidence bundle and it is yielded before
\* the engine is called; every later element is a non-empty fragment; the
\* fragments come in the engine's order and concatenate to the engine's text.
C8_StreamingProtocol ==
    app = "main" =>
        /\ (llm_calls > 0 \/ engine_out # <<>>) => Len(yielded) >= 1
        /\ yielded # <<>> =>
              /\ yielded[1].kind = "docs"
              /\ yielded[1].val \in {<<>>, reranked_docs}
        /\ \A i \in 2..Len(yielded) : yielded[i].kind = "token" /\ yielded[i].val # <<>>
        /\ YieldedTokens = NonEmptyFragments(engine_out)
        /\ Concat(YieldedTokens) = Concat(engine_out)

\* a finished stream of two fragments after the bundle, with an empty chunk text
C8_Witness ==
    /\ app = "main" /\ gen_pc = "finished"
    /\ Len(yielded) = 3
    /\ Len(engine_out) = 3
    /\ \E i \in 1..Len(engine_out) : engine_out[i] = <<>>

\* C9: in main.py no stage exception ends the session: the session ends by
\* :quit or Ctrl-C only, and after a stage raised the loop is back at the prompt
\* with that query reported as failed.
C9_MainFailureContained ==
    app = "main" =>
        /\ session # "crashed"
        /\ session = "ended" => cause \in {"quit", "KeyboardInterrupt"}
        /\ (stage_error # "none" /\ exc = "none" /\ session = "running") =>
              (pc = "prompt" /\ outcome = "failed")

\* a query failed and a later query of the same session was answered
C9_Witness ==
    /\ app = "main" /\ session = "running"
    /\ had_failure /\ outcome = "presented"

\* C10: in the client an exception of reranking, generation or verification
\* does not leave the session loop: the session ends by :quit, Ctrl-C or end
\* of input only.
C10_ClientFailureContained ==
    app = "client" =>
        /\ session # "crashed"
        /\ session = "ended" => cause \in {"quit", "KeyboardInterrupt", "EOFError"}

\* ------------------------------------------------------- claims, the stages
RerankInput == IF pc = "rerank" THEN unique_docs ELSE retrieved_docs
RerankTopN == IF pc = "rerank" THEN RERANKER_TOP_N ELSE RERANKER_N
RerankReturned == pc \in {"rerank", "rerank_documents"} /\ outcome = "returned"
InOutput(i) == \E k \in 1..Len(reranked_docs) : reranked_docs[k].oid = i

C12_StableTies ==
    RerankReturned =>
        /\ \A k, l \in 1..Len(reranked_docs) :
              (k < l /\ scores[reranked_docs[k].oid] = scores[reranked_docs[l].oid])
                  => reranked_docs[k].oid < reranked_docs[l].oid
        /\ \A i, j \in 1..Len(RerankInput) :
              (i < j /\ scores[i] = scores[j] /\ InOutput(j)) => InOutput(i)

\* the client's reranker: a tie inside the output and a tie the cut separates
C12_Witness ==
    /\ pc = "rerank_documents" /\ outcome = "returned"
    /\ Len(retrieved_docs) > RERANKER_N
    /\ \E i, j \in 1..Len(retrieved_docs) :
          i < j /\ scores[i] = scores[j] /\ InOutput(i) /\ ~InOutput(j)
    /\ \E k \in 1..(Len(reranked_docs) - 1) :
          /\ scores[reranked_docs[k].oid] = scores[reranked_docs[k + 1].oid]
          /\ scores[reranked_docs[1].oid] > scores[reranked_docs[Len(reranked_docs)].oid]

\* ------------------------------------------- claims, retrieval and context
ChunkIdentity(d) == <<d.page_content, d.metadata.source_file, d.metadata.page>>
IdentitiesOf(docs) == {ChunkIdentity(docs[i]) : i \in 1..Len(docs)}

\* C13: the de-duplicated list stream_query_response passes to the reranker
\* holds exactly one chunk for each distinct (content, source file, page) of the
\* retrieved list: its length is the number of distinct tuples.
C13_DedupOnePerTuple ==
    app = "main" =>
        /\ Len(unique_docs) = Cardinality(IdentitiesOf(retrieved_docs))
        /\ IdentitiesOf(unique_docs) = IdentitiesOf(retrieved_docs)
        /\ \A k, l \in 1..Len(unique_docs) :
              k # l => ChunkIdentity(unique_docs[k]) # ChunkIdentity(unique_docs[l])
        /\ \A k \in 1..Len(unique_docs) :
              \E i \in 1..Len(retrieved_docs) : retrieved_docs[i] = unique_docs[k]

\* the store returned the same chunk twice and the reranker was given one
C13_Witness ==
    /\ app = "main" /\ gen_pc = "rerank"
    /\ Len(retrieved_docs) = 2
    /\ ChunkIdentity(retrieved_docs[1]) = ChunkIdentity(retrieved_docs[2])
    /\ Len(unique_docs) = 1

\* C14: in the client deployment the list the client's reranker scores never
\* holds two chunks with the same (content, file, page).
C14_ClientCandidatesDistinct ==
    (app = "client" /\ pc \in {"rerank", "generate"}) =>
        \A k, l \in 1..Len(retrieved_docs) :
            k # l => ChunkIdentity(retrieved_docs[k]) # ChunkIdentity(retrieved_docs[l])

FormatReturned == pc \in {"format_context", "client_format_context"} /\ outcome = "returned"

\* C15: for an empty chunk list each _format_context returns the fixed
\* non-empty "no evidence" sentence, never the empty string.
C15_EmptyContextSentinel ==
    (FormatReturned /\ reranked_docs = <<>>) =>
        /\ context # <<>>
        /\ context = <<NoEvidenceSentinel>>
        /\ exc = "none"

BlockOf(d) ==
    IF pc = "format_context" THEN CitationHeader(d) \o <<"\n">> \o d.page_content
    ELSE ClientSourceRef(d) \o <<"\n">> \o d.page_content

\* where block i starts in the context string
RECURSIVE BlockStart(_, _)
BlockStart(docs, i) ==
    IF i = 1 THEN 1
    ELSE BlockStart(docs, i - 1) + Len(BlockOf(docs[i - 1])) + Len(Separator)

BlockEnd(docs, i) == BlockStart(docs, i) + Len(BlockOf(docs[i])) - 1

\* C16: the context is one block per chunk, header, newline and the content
\* unaltered, in the order of the input, with the separator between two
\* blocks and nothing else.
C16_OneBlockPerChunk ==
    (FormatReturned /\ reranked_docs # <<>>) =>
        /\ \A i \in 1..Len(reranked_docs) :
              SubSeq(context, BlockStart(reranked_docs, i), BlockEnd(reranked_docs, i))
                  = BlockOf(reranked_docs[i])
        /\ \A i \in 1..(Len(reranked_docs) - 1) :
              SubSeq(context, BlockEnd(reranked_docs, i) + 1,
                     BlockStart(reranked_docs, i + 1) - 1) = Separator
        /\ Len(context) = BlockEnd(reranked_docs, Len(reranked_docs))

\* two different chunks rendered by rag_core.py's _format_context
C16_Witness ==
    /\ pc = "format_context" /\ outcome = "returned"
    /\ Len(reranked_docs) = 2
    /\ reranked_docs[1].page_content # reranked_docs[2].page_content
    /\ Len(context) > Len(Separator)

\* ------------------------------------------------- claims, short circuits
\* C17: when the de-duplicated retrieval is empty, stream_query_response yields
\* the empty bundle as its only element; the relevance model, the engine and
\* the verifier are not called for the query, and main.py ends it with the
\* "no relevant document" outcome, not with a failure.
C17_ZeroCandidateShortCircuit ==
    (app = "main" /\ gen_pc = "yielded_empty" /\ unique_docs = <<>>) =>
        /\ yielded = <<[kind |-> "docs", val |-> <<>>]>>
        /\ predict_calls = 0 /\ llm_calls = 0 /\ engine_out = <<>>
        /\ verdict = NoVerdict
        /\ stage_error = "none"
        /\ pc \in {"next_docs", "prompt"}
        /\ pc = "prompt" => outcome = "no_document"

\* a query for which the store returned nothing, back at the prompt
C17_Witness ==
    /\ app = "main" /\ session = "running" /\ exc = "none"
    /\ gen_pc = "yielded_empty" /\ retrieved_docs = <<>> /\ unique_docs = <<>>
    /\ pc = "prompt" /\ outcome = "no_document"

C19_RetrievalDegradesToEmpty ==
    (stage_error = "retrieval" /\ exc = "none" /\ session = "running") =>
        /\ pc = "prompt"
        /\ outcome = "no_document"

\* C20: when the engine call for one chunk raises, verify still returns a
\* verdict: that chunk is unverified and every other chunk is classified.
C20_ProbeFailureLocal ==
    ( /\ verify_pc # "called"
      /\ ~Contains(raw_answer, VerifierNotFoundLiteral)
      /\ \E i \in 1..Len(source_docs) : llm_replies[i] = "RAISES" ) =>
        /\ verify_pc = "returned"
        /\ Len(response.verified_sources) + Len(response.unverified_sources)
              = Len(source_docs)
        /\ \A i \in 1..Len(source_docs) :
              llm_replies[i] = "RAISES" =>
                  \E k \in 1..Len(response.unverified_sources) :
                      response.unverified_sources[k] = source_docs[i].metadata

\* ------------------------------------------- claims, degenerate answers
\* C21: when the raw answer is nothing but citation tags and whitespace,
\* verify returns the "model produced an empty answer" verdict: not fully
\* verified, both source lists empty, and the engine is not called.
C21_EmptyClaimVerdict ==
    ( /\ verify_pc # "called"
      /\ ~Contains(raw_answer, VerifierNotFoundLiteral)
      /\ Claim(raw_answer) = <<>> ) =>
        /\ verify_pc = "returned"
        /\ response = FinalResponse(<<EmptyAnswerMessage>>, <<>>, <<>>, FALSE, raw_answer)
        /\ llm_calls = 0

\* C22: an answer without any citation tag is presented on the "unverified,
\* possible sources" path with the chunks of the bundle, with no verified and
\* no hallucinated citation and without an exception, whatever the bundle.
C22_NoCitationUnverifiedPath ==
    (app = "none" /\ pc = "none" /\ verdict # NoVerdict /\ verify_pc = "none"
        /\ ~Contains(final_answer, TagOpen)) =>
        /\ verdict.path = "unverified"
        /\ verdict.docs = source_docs
        /\ verdict.verified_refs = {} /\ verdict.hallucinated_refs = {}
        /\ verdict.verified_sources = {}
        /\ "KAYNAKLAR DOGRULANAMADI" \in verdict.printed
        /\ ("OLASI KAYNAKLAR" \in verdict.printed) <=> (source_docs # <<>>)
        /\ exc = "none" /\ stage_error = "none"

\* an answer with text and no tag, verified against an empty bundle
C22_Witness ==
    /\ app = "none" /\ pc = "none" /\ verdict.path = "unverified"
    /\ final_answer = <<"x", "x">> /\ source_docs = <<>>

\* --------------------------------------------- claims, generation engine
\* C23: at most one call of the generation engine is open at any time: the
\* answer's stream has ended before verification starts, and no query starts
\* while a call of an earlier query is still open.
C23_EngineExclusive ==
    /\ in_flight \in {0, 1}
    /\ in_flight = 1 => (app = "main" /\ gen_pc = "streaming" /\ llm_calls = 1)
    /\ verify_calls > 0 => in_flight = 0
    /\ (session = "running" /\ exc = "none" /\ pc \in {"prompt", "next_docs", "retrieve"})
          => in_flight = 0

\* a later query of the session streaming its answer, the earlier one presented
C23_Witness ==
    /\ app = "main" /\ session = "running" /\ outcome = "presented"
    /\ pc = "got_token" /\ gen_pc = "streaming" /\ in_flight = 1

\* the consumer is inside next(response_stream), waiting for the next element
ConsumerRequesting ==
    session = "running" /\ exc = "none" /\ pc \in {"next_docs", "next_token"}

\* C25: the generator calls the engine and pulls a chunk from its stream only
\* while the consumer asks for the next element; when the consumer holds the
\* evidence bundle the engine has not been called, and when it holds a token
\* that token's chunk is the last one pulled.
C25_LazyStreaming ==
    /\ [](gen_pc = "yielded_docs" => (llm_calls = 0 /\ engine_out = <<>>))
    /\ [](pc = "got_token" =>
             (engine_out # <<>> /\ engine_out[Len(engine_out)] = yielded[Len(yielded)].val))
    /\ [][(Len(engine_out') > Len(engine_out) \/ llm_calls' > llm_calls)
             => (ConsumerRequesting /\ pc = "next_token")]_vars

\* the consumer stopped at a token while the engine had more to stream
C25_Witness ==
    /\ app = "main" /\ session = "ended" /\ cause = "KeyboardInterrupt"
    /\ pc = "got_token" /\ gen_pc = "streaming"
    /\ stream # <<>> /\ Len(engine_out) = 1

\* C28: main.py calls verify_and_present at most once per query, only after
\* the token stream is exhausted, with the concatenation of every token yielded
\* and the bundle yielded first; for an empty bundle or an interrupted stream
\* it is not called and no verdict exists.
C28_VerifyOncePerQuery ==
    app = "main" =>
        /\ verify_calls \in {0, 1}
        /\ verify_calls = 1 =>
              /\ gen_pc = "finished" /\ stream = <<>>
              /\ yielded # <<>> /\ source_docs = yielded[1].val /\ source_docs # <<>>
              /\ final_answer = Concat(YieldedTokens)
        /\ verdict # NoVerdict => (verify_calls = 1 /\ outcome = "presented")
        /\ gen_pc \in {"yielded_empty", "raised"} => (verify_calls = 0 /\ verdict = NoVerdict)
        /\ (session # "running" /\ gen_pc = "streaming") => verdict = NoVerdict

\* an answer of two tokens, verified once and presented
C28_Witness ==
    /\ app = "main" /\ pc = "prompt" /\ outcome = "presented"
    /\ verify_calls = 1 /\ verdict # NoVerdict
    /\ Len(yielded) = 3 /\ yielded[2].val # yielded[3].val

\* a query of main.py is being processed
QueryRunning == app = "main" /\ session = "running" /\ pc # "prompt"

\* the loop of run is back at the prompt with a terminal outcome for the query
QueryEnded ==
    /\ session = "running" /\ exc = "none" /\ pc = "prompt"
    /\ outcome \in {"no_document", "presented", "failed"}
    /\ gen_pc \in {"yielded_empty", "finished", "raised"}

\* C26: every query of main.py ends: the loop is back at the prompt with the
\* outcome empty, presented or failed (or the user ended the session with
\* Ctrl-C), and a generator that has ended or raised yields nothing more.
C26_QueryTerminates ==
    /\ QueryRunning ~> (QueryEnded \/ (session = "ended" /\ cause = "KeyboardInterrupt"))
    /\ [][(gen_pc \in {"finished", "raised"} /\ gen_pc' # "start")
             => (gen_pc' = gen_pc /\ yielded' = yielded /\ engine_out' = engine_out)]_vars

\* a query whose stream of three chunks was consumed to its end
C26_Witness ==
    /\ QueryEnded /\ app = "main" /\ outcome = "presented"
    /\ gen_pc = "finished" /\ Len(engine_out) = 3

\* ------------------------------------------------ claims, library and store
\* the chunks of file f
FileChunks(f) == Range(ChunksOf(f))

\* C24: a /retrieve that overlaps an add_documents of /sync searches a
\* consistent snapshot: of every file all chunks or none, and the same chunks
\* in the dense store and in the BM25 index.
C24_RetrieveSeesSnapshot ==
    (app = "server" /\ seen.during \in {"chroma_added", "extended"}) =>
        /\ \A f \in LibraryFiles :
              FileChunks(f) \subseteq seen.dense \/ FileChunks(f) \cap seen.dense = {}
        /\ seen.lexical = seen.dense

\* C27: a /retrieve answered when no add_documents is under way searches, for
\* a non-empty store, both the dense store and a BM25 index, and the index
\* holds every chunk the store holds.
C27_RetrieverUpToDate ==
    (app = "server" /\ seen.during \in {"rebuilt", "loop", "idle"} /\ seen.dense # {}) =>
        /\ seen.hybrid
        /\ seen.lexical = seen.dense

\* C29: _sync_library adds no chunk to the store twice, and a PDF is recorded
\* as processed exactly when its chunks are in the store.
C29_SyncIdempotent ==
    app = "sync" =>
        /\ \A i, j \in 1..Len(db_chunks) : db_chunks[i] = db_chunks[j] => i = j
        /\ \A f \in LibraryFiles :
              (f \in processed_files) <=> (FileChunks(f) \subseteq Range(db_chunks))

\* -------------------------------------------------- claims, Policy B probes
\* the provenance of the chunks of the bundle whose index is in S, in bundle order
ProvenanceOf(S) ==
    LET RECURSIVE From(_)
        From(i) == IF i > Len(source_docs) THEN <<>>
                   ELSE (IF i \in S THEN <<source_docs[i].metadata>> ELSE <<>>) \o From(i + 1)
    IN  From(1)

\* C30: when verify is not short-circuited and no probe raises, every chunk of
\* the bundle is probed once and its provenance is in exactly one of the two
\* lists, in bundle order: verified when the reply holds the affirmative token,
\* unverified otherwise; final_answer is the raw answer.
C30_EveryChunkClassifiedOnce ==
    ( /\ verify_pc # "called"
      /\ ~Contains(raw_answer, VerifierNotFoundLiteral)
      /\ Claim(raw_answer) # <<>>
      /\ \A i \in 1..Len(source_docs) : llm_replies[i] # "RAISES" ) =>
        /\ verify_pc = "returned"
        /\ response.verified_sources = ProvenanceOf(Affirmed)
        /\ response.unverified_sources = ProvenanceOf(Denied)
        /\ response.final_answer = raw_answer
        /\ response.raw_llm_answer = raw_answer
====
